---- MODULE Spec2Model ----
(***************************************************************************)
(* Model of scripts/fetch_c2_feed.py: one process invocation of main() at  *)
(* a time (load state, load master keys, fetch every catalog query,        *)
(* normalise, deduplicate, append to master, persist master, feed,         *)
(* archive and run state), repeated by an external scheduler.              *)
(*                                                                         *)
(* JSON values are tagged records: Null, Str(s), Num(n), List(seq) and     *)
(* Dict(f).  A persisted file is <<>> when it does not exist and <<doc>>   *)
(* when it holds the document doc; json.dump followed by json.load is      *)
(* exact on these values (None, integers, strings, lists and dicts with    *)
(* string keys), so a file holds the document itself.  Clock readings are  *)
(* ticks: all readings taken by one invocation fall in the same tick and   *)
(* successive invocations read successive ticks.                           *)
(***************************************************************************)
EXTENDS Integers, Sequences, FiniteSets, TLC

VARIABLES
  state_file,      \* data/state.json
  master_file,     \* data/c2_master.json
  feed_file,       \* data/c2_feed.json
  archive_dir,     \* data/archive/: date_str -> feed document
  clock,           \* next reading of datetime.utcnow(), in ticks
  started,         \* number of invocations started so far
  pc,              \* position of the running invocation, "idle" when none
  state,           \* main: state
  existing_keys,   \* main: existing_keys
  now,             \* main: now
  after_date,      \* main: after_date, <<>> is None
  results,         \* fetch_c2_data: results
  qi,              \* fetch_c2_data: index of the next query of the for loop
  c2_data,         \* main: c2_data
  is_first_run,    \* main: is_first_run
  new_indicators,  \* main: new_indicators
  master_data,     \* main: master_data, <<>> before it is loaded
  feed_output,     \* main: feed_output, <<>> before it is built
  answer,          \* the service's answer in flight, <<>> when none
  served,          \* history: the answers this invocation has handled
  written,         \* history: the artifacts this invocation has written
  completed,       \* history: number of invocations that ran to the end
  p_match,         \* parse_match alone: the match record given
  p_out            \* parse_match alone: <<>> before the call, <<result>> after

vars == <<state_file, master_file, feed_file, archive_dir, clock, started, pc,
          state,
          existing_keys, now, after_date, results, qi, c2_data, is_first_run,
          new_indicators, master_data, feed_output, answer, served,
          written, completed, p_match, p_out>>

-----------------------------------------------------------------------------
(* Bounds *)
MaxRuns == 2
TicksPerMinute == 2
MaxMatches == 1

(* Program constants *)
CursorCap == 500
SearchLimit == 200
LookbackDays == 30

-----------------------------------------------------------------------------
(* JSON values *)
Null == [type |-> "null"]
Str(s) == [type |-> "str", s |-> s]
Num(n) == [type |-> "int", n |-> n]
List(q) == [type |-> "list", items |-> q]
Dict(f) == [type |-> "dict", items |-> f]
EmptyDict == Dict(<<>>)
EmptyList == List(<<>>)

\* An exception raised by an attribute access on a value that has no .get
AttributeError == [type |-> "AttributeError"]

Min(a, b) == IF a < b THEN a ELSE b

\* C2_QUERIES, the catalog in execution order: its first two entries
C2_QUERIES == << "tag:c2", "product:\"Cobalt Strike Beacon\"" >>

\* strftime('%Y-%m-%d_%H%M') and strftime('%Y-%m-%d') of a clock reading
MinuteOf(t) == t \div TicksPerMinute
DayOf(t) == MinuteOf(t) \div (24 * 60)

\* str() of a value inside an f-string
Fmt(v) ==
  CASE v.type = "null" -> "None"
    [] v.type = "str" -> v.s
    [] v.type = "int" -> ToString(v.n)

\* f"{r['ip']}:{r['port']}"
Key(r) == Fmt(r.ip) \o ":" \o Fmt(r.port)

\* d.get(k, default): raises when d is not a dict
PyGetBad(d, k, default) ==
  IF d.type = "dict"
    THEN IF k \in DOMAIN d.items THEN d.items[k] ELSE Null
    ELSE AttributeError

PyGet(d, k, default) ==
  IF d.type = "dict"
    THEN IF k \in DOMAIN d.items THEN d.items[k] ELSE default
    ELSE AttributeError

\* parse_match(match, query); t is the reading of datetime.utcnow()
parse_match(match, query, t) ==
  LET ssl == PyGet(match, "ssl", EmptyDict)
      cert == PyGet(ssl, "cert", EmptyDict)
      location == PyGet(match, "location", EmptyDict)
      http == PyGet(match, "http", EmptyDict)
      r == [ ip |-> PyGet(match, "ip_str", Null),
             port |-> PyGet(match, "port", Null),
             product |-> PyGet(match, "product", Null),
             tags |-> PyGet(match, "tags", EmptyList),
             org |-> PyGet(match, "org", Null),
             asn |-> PyGet(match, "asn", Null),
             isp |-> PyGet(match, "isp", Null),
             country |-> PyGet(location, "country_code", Null),
             city |-> PyGet(location, "city", Null),
             last_seen |-> PyGet(match, "timestamp", Null),
             hostnames |-> PyGet(match, "hostnames", EmptyList),
             domains |-> PyGet(match, "domains", EmptyList),
             ssl_cn |-> PyGet(PyGet(cert, "subject", EmptyDict), "CN", Null),
             ssl_issuer |-> PyGet(PyGet(cert, "issuer", EmptyDict), "O", Null),
             ssl_fingerprint |->
               PyGet(PyGet(cert, "fingerprint", EmptyDict), "sha256", Null),
             jarm |-> PyGet(ssl, "jarm", Null),
             http_title |-> PyGet(http, "title", Null),
             http_server |-> PyGet(http, "server", Null),
             os |-> PyGet(match, "os", Null),
             query_matched |-> query,
             collected_at |-> t ]
  IN IF \E f \in DOMAIN r \ {"query_matched", "collected_at"} :
          r[f] = AttributeError
       THEN AttributeError
       ELSE r

-----------------------------------------------------------------------------
(* Files *)
Absent == <<>>
Exists(file) == file # Absent
Doc(file) == file[1]

\* load_state(): None (<<>>) when the file does not exist
load_state(file) == IF Exists(file) THEN <<Doc(file)>> ELSE <<>>

\* load_master_iocs()
load_master_iocs_none(file) == {}

load_master_iocs(file) ==
  IF Exists(file)
    THEN {Key(Doc(file).indicators[i]) : i \in DOMAIN Doc(file).indicators}
    ELSE {}

\* load_master_data(): the indicators of the master document
load_master_data_fresh(file) == <<>>

load_master_data(file) ==
  IF Exists(file) THEN Doc(file).indicators ELSE <<>>

\* deduplicate(new_results, existing_keys): the loop, with seen as it grows
RECURSIVE dedup_loop(_, _, _)
dedup_loop(rest, seen, unique) ==
  IF rest = <<>>
    THEN unique
    ELSE LET r == Head(rest)
             key == Key(r)
         IN IF key \notin seen
              THEN dedup_loop(Tail(rest), seen \cup {key}, Append(unique, r))
              ELSE dedup_loop(Tail(rest), seen, unique)

RECURSIVE dedup_loop_no_add(_, _, _)
dedup_loop_no_add(rest, seen, unique) ==
  IF rest = <<>>
    THEN unique
    ELSE LET r == Head(rest)
             key == Key(r)
         IN IF key \notin seen
              THEN dedup_loop_no_add(Tail(rest), seen, Append(unique, r))
              ELSE dedup_loop_no_add(Tail(rest), seen, unique)

deduplicate_no_add(new_results, keys) ==
  dedup_loop_no_add(new_results, keys, <<>>)

RECURSIVE dedup_loop_reversed(_, _, _)
dedup_loop_reversed(rest, seen, unique) ==
  IF rest = <<>>
    THEN unique
    ELSE LET r == Head(rest)
             key == Key(r)
         IN IF key \notin seen
              THEN dedup_loop_reversed(Tail(rest), seen \cup {key},
                                       <<r>> \o unique)
              ELSE dedup_loop_reversed(Tail(rest), seen, unique)

deduplicate_reversed(new_results, keys) ==
  dedup_loop_reversed(new_results, keys, <<>>)

deduplicate(new_results, keys) == dedup_loop(new_results, keys, <<>>)

\* main: master_data after extend, last_updated and total_count are set
extend_master_stale_count(indicators, new, t) ==
  [ indicators |-> indicators \o new,
    last_updated |-> t,
    total_count |-> Len(indicators) ]

extend_master(indicators, new, t) ==
  [ indicators |-> indicators \o new,
    last_updated |-> t,
    total_count |-> Len(indicators \o new) ]

\* main: feed_output
feed_document_swapped(t, first, new) ==
  [ generated_at |-> t,
    run_type |-> IF first THEN "incremental" ELSE "backfill",
    new_indicators_count |-> Len(new),
    indicators |-> new ]

feed_document(t, first, new) ==
  [ generated_at |-> t,
    run_type |-> IF first THEN "backfill" ELSE "incremental",
    new_indicators_count |-> Len(new),
    indicators |-> new ]

\* save_state(last_run, total_indicators): the document written
state_document_off_by_one(last_run, total_indicators) ==
  [ last_run |-> last_run, total_indicators_collected |-> total_indicators + 1 ]

state_document(last_run, total_indicators) ==
  [ last_run |-> last_run, total_indicators_collected |-> total_indicators ]

-----------------------------------------------------------------------------
(* The external search service *)

\* Match records the service returns: complete, sparse, and one whose http
\* member is null
RawMatches ==
  { Dict([ ip_str |-> Str("1.2.3.4"), port |-> Num(443),
           product |-> Str("Cobalt Strike Beacon"), tags |-> List(<<"c2">>),
           ssl |-> Dict([ jarm |-> Str("07d14d16d21d21d") ]) ]),
    Dict([ ip_str |-> Str("5.6.7.8"), port |-> Num(8080) ]),
    Dict([ ip_str |-> Str("9.9.9.9"), port |-> Num(22), http |-> Null ]) }

SeqsUpTo(S, n) == UNION { [1..k -> S] : k \in 0..n }

\* One answer: the matches it yields and whether it then raises APIError
Responses == [ matches : SeqsUpTo(RawMatches, MaxMatches), err : BOOLEAN ]

\* The matches one query adds to results: api.search(limit=200) yields all of
\* them or raises; api.search_cursor yields up to the cap, then may raise
Yielded(resp, after) ==
  IF after = <<>>
    THEN SubSeq(resp.matches, 1, Min(Len(resp.matches), CursorCap))
    ELSE IF resp.err
           THEN <<>>
           ELSE SubSeq(resp.matches, 1, Min(Len(resp.matches), SearchLimit))

\* The records one iteration of the for loop passes through parse_match
parsed_matches(query, after, resp, t) ==
  [ i \in DOMAIN Yielded(resp, after) |->
      parse_match(Yielded(resp, after)[i], query, t) ]

\* One iteration ends the invocation: only shodan.APIError is caught, an
\* exception of parse_match is not
query_raises_uncaught(query, after, resp, t) ==
  \/ resp.err
  \/ \E i \in DOMAIN parsed_matches(query, after, resp, t) :
       parsed_matches(query, after, resp, t)[i] = AttributeError

query_raises(query, after, resp, t) ==
  \E i \in DOMAIN parsed_matches(query, after, resp, t) :
    parsed_matches(query, after, resp, t)[i] = AttributeError

\* results after one iteration of the for loop
query_step(res, query, after, resp, t) ==
  res \o parsed_matches(query, after, resp, t)

\* The raw matches an invocation has fed to parse_match, in order
RECURSIVE RawFed(_, _)
RawFed(answers, after) ==
  IF answers = <<>>
    THEN <<>>
    ELSE Yielded(Head(answers), after) \o RawFed(Tail(answers), after)

-----------------------------------------------------------------------------
(* The invocation *)

TypeOK ==
  /\ pc \in { "idle", "fetch", "dedupe", "append", "write_master",
              "write_feed", "write_archive", "save_state" }
  /\ clock \in 0..(TicksPerMinute + MaxRuns)
  /\ started \in 0..MaxRuns
  /\ qi \in 0..(Len(C2_QUERIES) + 1)
  /\ is_first_run \in BOOLEAN
  /\ completed \in 0..MaxRuns

\* The locals of a process that is not running
NoProcess ==
  /\ pc' = "idle"
  /\ state' = <<>>
  /\ existing_keys' = {}
  /\ now' = 0
  /\ after_date' = <<>>
  /\ results' = <<>>
  /\ qi' = 0
  /\ c2_data' = <<>>
  /\ is_first_run' = FALSE
  /\ new_indicators' = <<>>
  /\ master_data' = <<>>
  /\ feed_output' = <<>>
  /\ answer' = <<>>
  /\ served' = <<>>
  /\ written' = <<>>

Init ==
  /\ state_file = Absent
  /\ master_file = Absent
  /\ feed_file = Absent
  /\ archive_dir = <<>>
  /\ clock \in {0, TicksPerMinute - 1}
  /\ started = 0
  /\ pc = "idle"
  /\ state = <<>>
  /\ existing_keys = {}
  /\ now = 0
  /\ after_date = <<>>
  /\ results = <<>>
  /\ qi = 0
  /\ c2_data = <<>>
  /\ is_first_run = FALSE
  /\ new_indicators = <<>>
  /\ master_data = <<>>
  /\ feed_output = <<>>
  /\ answer = <<>>
  /\ served = <<>>
  /\ written = <<>>
  /\ completed = 0
  /\ p_match = EmptyDict
  /\ p_out = <<>>

\* main: load_state, load_master_iocs, now, the choice of after_date and the
\* entry into fetch_c2_data
Begin ==
  /\ pc = "idle"
  /\ started < MaxRuns
  /\ started' = started + 1
  /\ now' = clock
  /\ clock' = clock + 1
  /\ after_date' =
       IF load_state(state_file) = <<>>
         THEN <<DayOf(clock) - LookbackDays>>
         ELSE <<DayOf(Doc(state_file).last_run)>>
  /\ state' = load_state(state_file)
  /\ existing_keys' = load_master_iocs(master_file)
  /\ results' = <<>>
  /\ qi' = 1
  /\ pc' = "fetch"
  /\ UNCHANGED <<state_file, master_file, feed_file, archive_dir, c2_data,
                 is_first_run, new_indicators, master_data, feed_output,
                 answer, served, written, completed, p_match, p_out>>

\* fetch_c2_data: the search for C2_QUERIES[qi] is sent and answered
Search ==
  /\ pc = "fetch"
  /\ qi <= Len(C2_QUERIES)
  /\ answer = <<>>
  /\ \E resp \in Responses : answer' = <<resp>>
  /\ UNCHANGED <<state_file, master_file, feed_file, archive_dir, clock,
                 started, pc, state, existing_keys, now, after_date, results,
                 qi, c2_data, is_first_run, new_indicators, master_data,
                 feed_output, served, written, completed, p_match, p_out>>

\* fetch_c2_data: the rest of the iteration, on the answer received
HandleAnswer ==
  /\ pc = "fetch"
  /\ answer # <<>>
  /\ IF query_raises(C2_QUERIES[qi], after_date, Doc(answer), now)
       THEN /\ NoProcess
            /\ UNCHANGED <<state_file, master_file, feed_file, archive_dir,
                           clock, started, completed, p_match, p_out>>
       ELSE /\ results' = query_step(results, C2_QUERIES[qi], after_date,
                                     Doc(answer), now)
            /\ qi' = qi + 1
            /\ answer' = <<>>
            /\ served' = Append(served, Doc(answer))
            /\ UNCHANGED <<state_file, master_file, feed_file, archive_dir,
                           clock, started, pc, state, existing_keys, now,
                           after_date, c2_data, is_first_run, new_indicators,
                           master_data, feed_output, written, completed,
                           p_match, p_out>>

\* fetch_c2_data returns; main sets c2_data and is_first_run
FetchDone ==
  /\ pc = "fetch"
  /\ qi > Len(C2_QUERIES)
  /\ c2_data' = results
  /\ is_first_run' = (state = <<>>)
  /\ pc' = "dedupe"
  /\ UNCHANGED <<state_file, master_file, feed_file, archive_dir, clock, started,
                 state, existing_keys, now, after_date, results, qi,
                 new_indicators, master_data, feed_output, answer, served, written,
                 completed, p_match, p_out>>

\* main: new_indicators = deduplicate(c2_data, existing_keys)
Dedupe ==
  /\ pc = "dedupe"
  /\ new_indicators' = deduplicate(c2_data, existing_keys)
  /\ pc' = "append"
  /\ UNCHANGED <<state_file, master_file, feed_file, archive_dir, clock, started,
                 state, existing_keys, now, after_date, results, qi, c2_data,
                 is_first_run, master_data, feed_output, answer, served, written,
                 completed, p_match, p_out>>

\* main: load_master_data, extend, last_updated, total_count
AppendMaster ==
  /\ pc = "append"
  /\ master_data' =
       <<extend_master(load_master_data(master_file), new_indicators, now)>>
  /\ pc' = "write_master"
  /\ UNCHANGED <<state_file, master_file, feed_file, archive_dir, clock, started,
                 state, existing_keys, now, after_date, results, qi, c2_data,
                 is_first_run, new_indicators, feed_output, answer, served, written,
                 completed, p_match, p_out>>

\* main: json.dump(master_data) to MASTER_FILE
WriteMaster ==
  /\ pc = "write_master"
  /\ master_file' = master_data
  /\ written' = Append(written, "master")
  /\ pc' = "write_feed"
  /\ UNCHANGED <<state_file, feed_file, archive_dir, clock, started, state,
                 existing_keys, now, after_date, results, qi, c2_data,
                 is_first_run, new_indicators, master_data, feed_output,
                 answer, served, completed, p_match, p_out>>

\* main: feed_output is built and dumped to FEED_FILE
WriteFeed ==
  /\ pc = "write_feed"
  /\ feed_output' = <<feed_document(now, is_first_run, new_indicators)>>
  /\ feed_file' = feed_output'
  /\ written' = Append(written, "feed")
  /\ pc' = "write_archive"
  /\ UNCHANGED <<state_file, master_file, archive_dir, clock, started, state,
                 existing_keys, now, after_date, results, qi, c2_data,
                 is_first_run, new_indicators, master_data, answer, served,
                 completed, p_match, p_out>>

\* main: feed_output is dumped to ARCHIVE_DIR / c2_feed_<date_str>.json
WriteArchive ==
  /\ pc = "write_archive"
  /\ archive_dir' =
       [ d \in DOMAIN archive_dir \cup {MinuteOf(now)} |->
           IF d = MinuteOf(now) THEN Doc(feed_output) ELSE archive_dir[d] ]
  /\ written' = Append(written, "archive")
  /\ pc' = "save_state"
  /\ UNCHANGED <<state_file, master_file, feed_file, clock, started, state,
                 existing_keys, now, after_date, results, qi, c2_data,
                 is_first_run, new_indicators, master_data, feed_output,
                 answer, served, completed, p_match, p_out>>

\* main: save_state, the summary, and the end of the process
SaveState ==
  /\ pc = "save_state"
  /\ state_file' = <<state_document(now, Doc(master_data).total_count)>>
  /\ completed' = completed + 1
  /\ NoProcess
  /\ UNCHANGED <<master_file, feed_file, archive_dir, clock, started,
                 p_match, p_out>>

\* The process ends abnormally at any point between two steps: an uncaught
\* exception or a kill
Abort ==
  /\ pc # "idle"
  /\ answer = <<>>
  /\ NoProcess
  /\ UNCHANGED <<state_file, master_file, feed_file, archive_dir, clock, started,
                 completed, p_match, p_out>>

Next ==
  \/ Begin
  \/ Search
  \/ HandleAnswer
  \/ FetchDone
  \/ Dedupe
  \/ AppendMaster
  \/ WriteMaster
  \/ WriteFeed
  \/ WriteArchive
  \/ SaveState
  \/ Abort

Spec == Init /\ [][Next]_vars

-----------------------------------------------------------------------------
(* parse_match on its own, over match records with members missing, null   *)
(* or present                                                              *)

Missing == [type |-> "missing"]

\* The members kept: a member chosen as Missing is not in the record
Strip(o) == Dict([ k \in {j \in DOMAIN o : o[j] # Missing} |-> o[k] ])

SslOptions ==
  { Missing, Null, EmptyDict,
    Dict([ jarm |-> Str("07d14d16d21d21d") ]),
    Dict([ cert |-> Null ]),
    Dict([ cert |-> EmptyDict ]),
    Dict([ cert |-> Dict([ subject |-> Dict([ CN |-> Str("example.org") ]),
                           fingerprint |-> Null ]) ]),
    Dict([ cert |-> Dict([ subject |-> EmptyDict,
                           issuer |-> Dict([ O |-> Str("Acme") ]),
                           fingerprint |-> Dict([ sha256 |-> Str("ab12") ]) ]),
           jarm |-> Null ]) }

LocationOptions ==
  { Missing, Null, EmptyDict, Dict([ country_code |-> Str("US") ]) }

HttpOptions == { Missing, Null, Dict([ title |-> Str("Login") ]) }

ParseInputs ==
  { Strip(o) : o \in [ ip_str : {Missing, Str("1.2.3.4")},
                       port : {Missing, Num(443)},
                       tags : {Missing, List(<<"c2">>)},
                       ssl : SslOptions,
                       location : LocationOptions,
                       http : HttpOptions ] }

InitParse ==
  /\ p_match \in ParseInputs
  /\ p_out = <<>>
  /\ state_file = Absent
  /\ master_file = Absent
  /\ feed_file = Absent
  /\ archive_dir = <<>>
  /\ clock = 0
  /\ started = 0
  /\ pc = "idle"
  /\ state = <<>>
  /\ existing_keys = {}
  /\ now = 0
  /\ after_date = <<>>
  /\ results = <<>>
  /\ qi = 0
  /\ c2_data = <<>>
  /\ is_first_run = FALSE
  /\ new_indicators = <<>>
  /\ master_data = <<>>
  /\ feed_output = <<>>
  /\ answer = <<>>
  /\ served = <<>>
  /\ written = <<>>
  /\ completed = 0

\* One call parse_match(p_match, query)
ParseCall ==
  /\ p_out = <<>>
  /\ \E i \in DOMAIN C2_QUERIES :
       p_out' = <<parse_match(p_match, C2_QUERIES[i], clock)>>
  /\ UNCHANGED <<state_file, master_file, feed_file, archive_dir, clock,
                 started, pc, state, existing_keys, now, after_date, results,
                 qi, c2_data, is_first_run, new_indicators, master_data,
                 feed_output, answer, served, written, completed, p_match>>

NextParse == ParseCall

SpecParse == InitParse /\ [][NextParse]_vars

-----------------------------------------------------------------------------
(* Properties *)

Indicators(file) == IF Exists(file) THEN Doc(file).indicators ELSE <<>>
KeysOf(seq) == { Key(seq[i]) : i \in DOMAIN seq }
IsPrefix(s, t) == Len(s) <= Len(t) /\ SubSeq(t, 1, Len(s)) = s
NoDuplicateKeys(seq) ==
  \A i, j \in DOMAIN seq : i # j => Key(seq[i]) # Key(seq[j])
QueryIndex(q) == CHOOSE i \in DOMAIN C2_QUERIES : C2_QUERIES[i] = q

\* C1: the master never holds two entries with the same address:port key,
\* and the write of the master makes its key set the union of the keys it
\* held before the run and the keys of the fetched list.
C1_MasterKeysUnion ==
  /\ [] NoDuplicateKeys(Indicators(master_file))
  /\ [][ (pc = "write_master" /\ pc' = "write_feed")
           => KeysOf(Indicators(master_file)') =
                KeysOf(Indicators(master_file)) \cup KeysOf(c2_data) ]_vars

\* C1 witness: a run has written a master that already held a key, fetched
\* that key again and fetched a new one.
C1_Witness ==
  /\ pc = "write_feed"
  /\ existing_keys # {}
  /\ KeysOf(c2_data) \cap existing_keys # {}
  /\ KeysOf(c2_data) \ existing_keys # {}

\* The positions of c2_data that hold the first occurrence of a key that
\* the master does not know
FirstNew ==
  { i \in DOMAIN c2_data :
      /\ Key(c2_data[i]) \notin existing_keys
      /\ \A j \in 1..(i - 1) : Key(c2_data[j]) # Key(c2_data[i]) }

\* C2: the new indicators are the fetched records at the positions FirstNew,
\* in input order: one per unknown endpoint, the first occurrence, which
\* comes from the earliest query that matched the endpoint.
C2_FirstOccurrenceWins ==
  pc = "append" =>
    /\ Len(new_indicators) = Cardinality(FirstNew)
    /\ \A n \in DOMAIN new_indicators :
         new_indicators[n] =
           c2_data[CHOOSE i \in FirstNew :
                     Cardinality({j \in FirstNew : j <= i}) = n]
    /\ \A n \in DOMAIN new_indicators : \A i \in DOMAIN c2_data :
         Key(c2_data[i]) = Key(new_indicators[n])
           => QueryIndex(new_indicators[n].query_matched)
                <= QueryIndex(c2_data[i].query_matched)

\* C2 witness: both queries returned the same endpoint, unknown to the
\* master, and the one indicator kept is that of the first query.
C2_Witness ==
  /\ pc = "append"
  /\ Len(c2_data) = 2
  /\ Key(c2_data[1]) = Key(c2_data[2])
  /\ Key(c2_data[1]) \notin existing_keys
  /\ c2_data[1].query_matched # c2_data[2].query_matched
  /\ Len(new_indicators) = 1
  /\ new_indicators[1].query_matched = C2_QUERIES[1]

\* C3: once a run has written the master, feeding the raw matches of that
\* run again through parse_match and deduplicate, against the keys of the
\* master as persisted, yields no new indicator.
C3_SecondFeedYieldsNothing ==
  written # <<>> =>
    \A i \in DOMAIN C2_QUERIES :
      deduplicate(
        [ n \in DOMAIN RawFed(served, after_date) |->
            parse_match(RawFed(served, after_date)[n], C2_QUERIES[i], clock) ],
        load_master_iocs(master_file)) = <<>>

\* C3 witness: the first feed of a non-empty raw list added indicators.
C3_Witness ==
  /\ written # <<>>
  /\ RawFed(served, after_date) # <<>>
  /\ new_indicators # <<>>

\* The results fetch_c2_data owes for the answers handled: the parsed
\* matches of the answers that did not fail, in catalog order
RECURSIVE Owed(_)
Owed(n) ==
  IF n = 0
    THEN <<>>
    ELSE Owed(n - 1) \o
           ( IF served[n].err
               THEN <<>>
               ELSE [ k \in DOMAIN served[n].matches |->
                        parse_match(served[n].matches[k], C2_QUERIES[n], now) ] )

\* C4: an answer that fails does not end the run and leaves the results as
\* they are, the loop going on to the next query; and when the fetch has
\* finished every query was answered and the data holds the matches of all
\* answers that did not fail.
C4_FailedQuerySkipped ==
  /\ [][ (answer # <<>> /\ Doc(answer).err)
           => (pc' = "fetch" /\ qi' = qi + 1 /\ results' = results) ]_vars
  /\ [] ( pc = "dedupe" =>
            /\ Len(served) = Len(C2_QUERIES)
            /\ c2_data = Owed(Len(served)) )

\* C4 witness: the first query failed, the second returned a match, and the
\* match is in the data handed to deduplication.
C4_Witness ==
  /\ pc = "dedupe"
  /\ served[1].err
  /\ ~served[2].err
  /\ Len(c2_data) = 1
  /\ c2_data[1].query_matched = C2_QUERIES[2]

\* C5: every step leaves the indicator list of the master a prefix of the
\* list after the step.
C5_MasterAppendOnly ==
  [][ IsPrefix(Indicators(master_file), Indicators(master_file)') ]_vars

\* C5 witness: a later run has appended to a master that held entries.
C5_Witness ==
  /\ pc = "write_feed"
  /\ completed > 0
  /\ Len(new_indicators) > 0
  /\ Len(Indicators(master_file)) > Len(new_indicators)

\* C6: total_count of the master document is the length of its indicators.
C6_TotalCount ==
  Exists(master_file) =>
    Doc(master_file).total_count = Len(Doc(master_file).indicators)

\* C6 witness: after two completed runs the master holds two indicators.
C6_Witness ==
  /\ pc = "idle"
  /\ completed = 2
  /\ Exists(master_file)
  /\ Doc(master_file).total_count = 2

\* The member of a match record at a path of keys: Missing when a key of
\* the path is not there, Broken when the path goes through a value that is
\* not a dict
Broken == [type |-> "broken"]

RECURSIVE Lookup(_, _)
Lookup(d, path) ==
  IF path = <<>>
    THEN d
    ELSE IF d.type # "dict"
           THEN Broken
           ELSE IF Head(path) \notin DOMAIN d.items
                  THEN Missing
                  ELSE Lookup(d.items[Head(path)], Tail(path))

\* Where each field of an indicator comes from in the match record
FieldPath ==
  [ ip |-> <<"ip_str">>, port |-> <<"port">>, product |-> <<"product">>,
    tags |-> <<"tags">>, org |-> <<"org">>, asn |-> <<"asn">>,
    isp |-> <<"isp">>, country |-> <<"location", "country_code">>,
    city |-> <<"location", "city">>, last_seen |-> <<"timestamp">>,
    hostnames |-> <<"hostnames">>, domains |-> <<"domains">>,
    ssl_cn |-> <<"ssl", "cert", "subject", "CN">>,
    ssl_issuer |-> <<"ssl", "cert", "issuer", "O">>,
    ssl_fingerprint |-> <<"ssl", "cert", "fingerprint", "sha256">>,
    jarm |-> <<"ssl", "jarm">>, http_title |-> <<"http", "title">>,
    http_server |-> <<"http", "server">>, os |-> <<"os">> ]

\* The nested members parse_match reads through
ContainerPaths ==
  { <<"ssl">>, <<"ssl", "cert">>, <<"ssl", "cert", "subject">>,
    <<"ssl", "cert", "issuer">>, <<"ssl", "cert", "fingerprint">>,
    <<"location">>, <<"http">> }

\* Every nested member of the record is missing or a dict
OnlyMissing(match) ==
  \A path \in ContainerPaths :
    Lookup(match, path).type \in {"missing", "dict"}

\* C7: for a match record whose nested members are each missing or a dict,
\* parse_match returns an indicator (it does not raise), and every field
\* whose member is missing is null or the empty list.
C7_ParseTotalOnMissing ==
  (p_out # <<>> /\ OnlyMissing(p_match)) =>
    /\ p_out[1] # AttributeError
    /\ DOMAIN p_out[1] = DOMAIN FieldPath \cup {"query_matched", "collected_at"}
    /\ \A f \in DOMAIN FieldPath :
         Lookup(p_match, FieldPath[f]) = Missing
           => p_out[1][f] \in {Null, EmptyList}

\* C7 witness: a record with no ssl, no location and no http member was
\* parsed into an indicator.
C7_Witness ==
  /\ p_out # <<>>
  /\ DOMAIN p_match.items \cap {"ssl", "location", "http"} = {}
  /\ p_out[1] # AttributeError
  /\ p_out[1].jarm = Null
  /\ p_out[1].country = Null

\* C8: no step removes or changes an archive file, and the archive write of
\* a run adds one file, a copy of the feed document of the run.
C8_ArchivePerRunImmutable ==
  [][ /\ \A d \in DOMAIN archive_dir :
           d \in DOMAIN archive_dir' /\ archive_dir'[d] = archive_dir[d]
      /\ (pc = "write_archive" /\ pc' = "save_state")
           => /\ Cardinality(DOMAIN archive_dir') =
                   Cardinality(DOMAIN archive_dir) + 1
              /\ \E d \in DOMAIN archive_dir' :
                   archive_dir'[d] = Doc(feed_file) ]_vars

\* C9: a run is a first run exactly when no run state is persisted while it
\* runs, the feed document it writes says backfill exactly then, and once a
\* run has completed no run is a first run.
C9_RunMode ==
  /\ pc \notin {"idle", "fetch"}
       => /\ is_first_run = (state_file = Absent)
          /\ (completed > 0 => ~is_first_run)
  /\ pc \in {"write_archive", "save_state"}
       => /\ Doc(feed_file).run_type =
               (IF state_file = Absent THEN "backfill" ELSE "incremental")
          /\ (completed > 0 => Doc(feed_file).run_type = "incremental")
  /\ completed > 0 => state_file # Absent

\* C9 witness: a run after a completed one has written an incremental feed.
C9_Witness ==
  /\ pc = "write_archive"
  /\ completed > 0
  /\ ~is_first_run
  /\ Doc(feed_file).run_type = "incremental"

\* C10: the artifacts are written in the order master, feed, archive, run
\* state, each only after deduplication has finished; nothing persisted
\* changes before the master write; and the total of the run state never
\* exceeds the number of indicators in the master.
C10_WriteOrder ==
  /\ [][ /\ master_file' # master_file
           => (pc = "write_master" /\ written = <<>>)
         /\ feed_file' # feed_file
           => (pc = "write_feed" /\ written = <<"master">>)
         /\ archive_dir' # archive_dir
           => (pc = "write_archive" /\ written = <<"master", "feed">>)
         /\ state_file' # state_file
           => (pc = "save_state" /\ written = <<"master", "feed", "archive">>)
         /\ (written = <<>> /\ written' = <<>>)
           => UNCHANGED <<state_file, master_file, feed_file, archive_dir>>
       ]_vars
  /\ [] ( Exists(state_file) =>
            /\ Exists(master_file)
            /\ Doc(state_file).total_indicators_collected
                 <= Len(Doc(master_file).indicators) )

\* C10 witness: a run was aborted after its master write, so the master
\* holds more indicators than the run state counts.
C10_Witness ==
  /\ pc = "idle"
  /\ Exists(state_file)
  /\ Doc(state_file).total_indicators_collected
       < Len(Doc(master_file).indicators)

====
